---- MODULE Spec2Model ----
(***************************************************************************)
(* A model of server.js of the web analyser: the text extractors           *)
(* (getTagContent, getMetaContent, countWordsInPTags, getDocumentTitle),   *)
(* the request handler with handleAnalysis, and the module's start-up.     *)
(*                                                                         *)
(* Strings are sequences of one-character strings.  The regular            *)
(* expressions of the source are kept as pattern texts, cooked as the      *)
(* template literal cooks them, parsed and run by a backtracking matcher.  *)
(***************************************************************************)
EXTENDS Integers, Sequences, FiniteSets, TLC

\* ------------------------------------------------------------------------
\* Characters
\* ------------------------------------------------------------------------

\* White space and line terminators of the character set in use.
WhiteSpace == {" ", "\t", "\n", "\r"}

LineTerminators == {"\n", "\r"}

\* The upper case of each lower-case letter.
toUpperCase ==
  [a |-> "A", b |-> "B", c |-> "C", d |-> "D", e |-> "E", f |-> "F", g |-> "G",
   h |-> "H", i |-> "I", j |-> "J", k |-> "K", l |-> "L", m |-> "M", n |-> "N",
   o |-> "O", p |-> "P", q |-> "Q", r |-> "R", s |-> "S", t |-> "T", u |-> "U",
   v |-> "V", w |-> "W", x |-> "X", y |-> "Y", z |-> "Z"]

\* The lower case of each upper-case letter.
toLowerCase ==
  [A |-> "a", B |-> "b", C |-> "c", D |-> "d", E |-> "e", F |-> "f", G |-> "g",
   H |-> "h", I |-> "i", J |-> "j", K |-> "k", L |-> "l", M |-> "m", N |-> "n",
   O |-> "o", P |-> "p", Q |-> "q", R |-> "r", S |-> "s", T |-> "t", U |-> "u",
   V |-> "v", W |-> "w", X |-> "x", Y |-> "y", Z |-> "z"]

Lower(c) == IF c \in DOMAIN toLowerCase THEN toLowerCase[c] ELSE c

IsAlpha(c) == c \in DOMAIN toLowerCase \/ c \in DOMAIN toUpperCase

\* Matching with no i flag: a character is compared as it is.
NoCanonicalize(c) == c

\* Canonicalize of the i flag: a character is compared by its upper case.
Canonicalize(c) == IF c \in DOMAIN toUpperCase THEN toUpperCase[c] ELSE c

\* ------------------------------------------------------------------------
\* Helpers.  A value that is used more than once is bound by x \in {e}, so
\* that it is computed once, as a local variable of the source is.
\* ------------------------------------------------------------------------

Min(S) == CHOOSE r \in {CHOOSE x \in T : \A y \in T : x <= y : T \in {S}} : TRUE

Max(S) == CHOOSE r \in {CHOOSE x \in T : \A y \in T : x >= y : T \in {S}} : TRUE

\* ------------------------------------------------------------------------
\* Template literals: the cooked value of a raw template text.  A backslash
\* followed by a character that starts no escape sequence yields that
\* character; \\ yields one backslash.
\* ------------------------------------------------------------------------

\* Whether the backslash at i starts an escape: an odd number of backslashes
\* ends at i, and a character follows.
StartsEscape(raw, i) ==
  /\ raw[i] = "\\"
  /\ i < Len(raw)
  /\ (i - Max({j \in 0..(i - 1) : j = 0 \/ raw[j] # "\\"})) % 2 = 1

\* The cooked character for the raw character at i.
Cooked(raw, i) ==
  IF i > 1 /\ StartsEscape(raw, i - 1)
    THEN CASE raw[i] = "n" -> "\n"
           [] raw[i] = "t" -> "\t"
           [] raw[i] = "r" -> "\r"
           [] OTHER -> raw[i]
    ELSE raw[i]

\* The n-th element of the set S of numbers.
Nth(S, n) == CHOOSE x \in S : Cardinality({y \in S : y <= x}) = n

Cook(raw) ==
  CHOOSE r \in
    {[n \in 1..Cardinality(kept) |-> Cooked(raw, Nth(kept, n))] :
       kept \in {{i \in 1..Len(raw) : ~StartsEscape(raw, i)}}} : TRUE

\* ------------------------------------------------------------------------
\* Regular expressions.  A regular expression is its pattern text; an item
\* of it is a group bracket or an atom (a character, a class, an escape,
\* the dot) with its quantifier.
\* ------------------------------------------------------------------------

Atom(neg, chars, ws, nws, dot) ==
  [k |-> "atom", neg |-> neg, chars |-> chars, ws |-> ws, nws |-> nws,
   dot |-> dot, q |-> "1", lazy |-> FALSE, next |-> 0]

Bracket(kind, next) ==
  [k |-> kind, neg |-> FALSE, chars |-> {}, ws |-> FALSE, nws |-> FALSE,
   dot |-> FALSE, q |-> "1", lazy |-> FALSE, next |-> next]

\* The index of the "]" that closes the class whose members start at j: the
\* first "]" that no backslash escapes.
ClassEnd(p, j) ==
  Min({e \in j..(Len(p) + 1) :
         \/ e = Len(p) + 1
         \/ p[e] = "]" /\ (e = j \/ p[e - 1] # "\\")})

\* The class with the members p[j..e-1]: \s, \S, or the character itself.
ClassAtom(p, j, e, neg) ==
  [Atom(neg, {}, FALSE, FALSE, FALSE) EXCEPT
     !.ws = \E m \in j..(e - 2) : p[m] = "\\" /\ p[m + 1] = "s",
     !.nws = \E m \in j..(e - 2) : p[m] = "\\" /\ p[m + 1] = "S",
     !.chars = {p[m] : m \in {n \in j..(e - 1) : p[n] # "\\" /\ (n = j \/ p[n - 1] # "\\")}},
     !.next = e + 1]

\* The atom that starts at p[i]; next is the index after it.
AtomAt(p, i) ==
  CASE p[i] = "[" ->
         CHOOSE r \in
           {ClassAtom(p, j, ClassEnd(p, j), j = i + 2) :
              j \in {IF i + 1 <= Len(p) /\ p[i + 1] = "^" THEN i + 2 ELSE i + 1}} : TRUE
    [] p[i] = "\\" ->
         [(CASE p[i + 1] = "s" -> Atom(FALSE, {}, TRUE, FALSE, FALSE)
             [] p[i + 1] = "S" -> Atom(FALSE, {}, FALSE, TRUE, FALSE)
             [] OTHER -> Atom(FALSE, {p[i + 1]}, FALSE, FALSE, FALSE))
            EXCEPT !.next = i + 2]
    [] p[i] = "." -> [Atom(FALSE, {}, FALSE, FALSE, TRUE) EXCEPT !.next = i + 1]
    [] OTHER -> [Atom(FALSE, {p[i]}, FALSE, FALSE, FALSE) EXCEPT !.next = i + 1]

\* The atom a with the quantifier the pattern has after it, if any.
Quantified(p, a) ==
  IF a.next <= Len(p) /\ p[a.next] \in {"*", "+", "?"}
    THEN IF a.next + 1 <= Len(p) /\ p[a.next + 1] = "?"
           THEN [a EXCEPT !.q = p[a.next], !.lazy = TRUE, !.next = a.next + 2]
           ELSE [a EXCEPT !.q = p[a.next], !.next = a.next + 1]
    ELSE a

\* The item that starts at p[i]; next is the index of the item after it.
ItemAt(p, i) ==
  IF p[i] = "(" THEN Bracket("open", i + 1)
  ELSE IF p[i] = ")" THEN Bracket("close", i + 1)
  ELSE CHOOSE r \in {Quantified(p, a) : a \in {AtomAt(p, i)}} : TRUE

\* The characters with a meaning in a pattern.
SyntaxCharacters == {"[", "\\", "(", ")", ".", "*", "+", "?"}

\* Whether p[i] is a character that stands for itself, without a quantifier.
IsPlain(p, i) ==
  /\ p[i] \notin SyntaxCharacters
  /\ (i = Len(p) \/ p[i + 1] \notin {"*", "+", "?"})

\* How many characters from p[k] on are plain.
PlainRun(p, k) ==
  Min({m \in 0..(Len(p) - k + 1) : m = Len(p) - k + 1 \/ ~IsPlain(p, k + m)})

\* ------------------------------------------------------------------------
\* The matcher.  ignoreCase is the i flag.
\* ------------------------------------------------------------------------

AtomMatches(a, c, ignoreCase) ==
  IF a.dot THEN c \notin LineTerminators
  ELSE (a.neg) # (\/ IF ignoreCase
                       THEN \E d \in a.chars : Canonicalize(d) = Canonicalize(c)
                       ELSE c \in a.chars
                  \/ a.ws /\ c \in WhiteSpace
                  \/ a.nws /\ c \notin WhiteSpace)

\* A plain character of the pattern against a character of the text.
PlainMatches(d, c, ignoreCase) ==
  IF ignoreCase THEN Canonicalize(d) = Canonicalize(c) ELSE d = c

\* How many characters of s from index i on match the atom a, at most max:
\* the offset of the first character that does not match.
RunLength(a, s, i, max, ignoreCase) ==
  CHOOSE r \in
    {Min({j \in 0..last : j = last \/ ~AtomMatches(a, s[i + j], ignoreCase)}) :
       last \in {IF Len(s) - i + 1 < max THEN Len(s) - i + 1 ELSE max}} : TRUE

NoMatch == [ok |-> FALSE, index |-> 0, end |-> 0, cs |-> 0, ce |-> 0]

\* What the pattern p takes of s at index i from its index k on: a run of
\* plain characters, one character each, or one item.  next is where the
\* pattern goes on; least..most are the numbers of characters that may be
\* consumed (none when most < least).
PlainStep(p, k, s, i, m, ignoreCase) ==
  [k |-> "atom", lazy |-> FALSE, next |-> k + m, least |-> m,
   most |-> IF /\ i + m - 1 <= Len(s)
               /\ \A d \in 0..(m - 1) : PlainMatches(p[k + d], s[i + d], ignoreCase)
              THEN m ELSE m - 1]

ItemStep(it, s, i, ignoreCase) ==
  [k |-> it.k, lazy |-> it.lazy, next |-> it.next,
   least |-> IF it.k = "atom" /\ it.q \in {"1", "+"} THEN 1 ELSE 0,
   most |-> IF it.k # "atom" THEN 0
            ELSE RunLength(it, s, i, IF it.q \in {"1", "?"} THEN 1 ELSE Len(s), ignoreCase)]

\* A step that takes nothing: the pattern does not match here.
DeadStep == [k |-> "atom", lazy |-> FALSE, next |-> 0, least |-> 1, most |-> 0]

Step(p, k, s, i, ignoreCase) ==
  IF IsPlain(p, k)
    THEN IF i > Len(s) \/ ~PlainMatches(p[k], s[i], ignoreCase) THEN DeadStep
         ELSE CHOOSE r \in
                {PlainStep(p, k, s, i, m, ignoreCase) : m \in {PlainRun(p, k)}} : TRUE
    ELSE CHOOSE r \in {ItemStep(it, s, i, ignoreCase) : it \in {ItemAt(p, k)}} : TRUE

\* Of the ways to go on that match, the one backtracking finds first: after
\* the longest run for a greedy item, after the shortest for a lazy one.  A
\* bracket of the group records where it is.
FirstOf(st, i, good) ==
  IF good = {} THEN NoMatch
  ELSE CHOOSE r \in
         {IF st.k = "open" THEN [best.r EXCEPT !.cs = i]
          ELSE IF st.k = "close" THEN [best.r EXCEPT !.ce = i]
          ELSE best.r :
            best \in {IF st.lazy
                        THEN CHOOSE t \in good : \A u \in good : t.j <= u.j
                        ELSE CHOOSE t \in good : \A u \in good : t.j >= u.j}} : TRUE

\* The pattern p from its index k on matched against s at index i, by
\* backtracking: MatchAt takes the step st of the pattern, Continue tries
\* each number of characters the step may consume.
RECURSIVE MatchAt(_, _, _, _, _)
RECURSIVE Continue(_, _, _, _, _)
MatchAt(p, k, s, i, ignoreCase) ==
  IF k > Len(p) THEN [ok |-> TRUE, index |-> 0, end |-> i, cs |-> 0, ce |-> 0]
  ELSE CHOOSE r \in
         {Continue(p, st, s, i, ignoreCase) : st \in {Step(p, k, s, i, ignoreCase)}} : TRUE

Continue(p, st, s, i, ignoreCase) ==
  CHOOSE r \in
    {FirstOf(st, i, good) :
       good \in {{t \in {[j |-> n, r |-> MatchAt(p, st.next, s, i + n, ignoreCase)] :
                           n \in st.least..st.most} : t.r.ok}}} : TRUE

\* The leftmost of the matches found.
Leftmost(good) ==
  IF good = {} THEN NoMatch
  ELSE CHOOSE r \in
         {[t.r EXCEPT !.index = t.i] :
            t \in {CHOOSE t \in good : \A u \in good : t.i <= u.i}} : TRUE

\* The leftmost match at or after index from (regex.exec from lastIndex;
\* String.prototype.match with from = 1).
ExecFrom(p, s, from, ignoreCase) ==
  CHOOSE r \in
    {Leftmost(good) :
       good \in {{t \in {[i |-> i, r |-> MatchAt(p, 1, s, i, ignoreCase)] :
                           i \in from..(Len(s) + 1)} : t.r.ok}}} : TRUE

Exec(p, s, from, ignoreCase) ==
  CHOOSE r \in {ExecFrom(pv, sv, from, ignoreCase) : pv \in {p}, sv \in {s}} : TRUE

\* match[1]: the text of capture group 1.
Group1(s, m) == SubSeq(s, m.cs, m.ce - 1)

\* ------------------------------------------------------------------------
\* String methods
\* ------------------------------------------------------------------------

\* The text t from its first to its last character that is no white space.
Trimmed(t) ==
  CHOOSE r \in
    {IF black = {} THEN <<>> ELSE SubSeq(t, Min(black), Max(black)) :
       black \in {{i \in 1..Len(t) : t[i] \notin WhiteSpace}}} : TRUE

\* s.trim(): s without its leading and trailing white space.
trim(s) == CHOOSE r \in {Trimmed(t) : t \in {s}} : TRUE

\* s.replace(p, by) with the g flag, from index from on.
RECURSIVE replaceFrom(_, _, _, _)
replaceFrom(p, s, from, by) ==
  CHOOSE r \in
    {IF ~m.ok THEN SubSeq(s, from, Len(s))
     ELSE SubSeq(s, from, m.index - 1) \o by \o replaceFrom(p, s, m.end, by) :
       m \in {ExecFrom(p, s, from, FALSE)}} : TRUE

replaceAll(p, s, by) ==
  CHOOSE r \in {replaceFrom(pv, sv, 1, by) : pv \in {p}, sv \in {s}} : TRUE

\* s.split(p): from is where the piece being read starts, q where the next
\* separator is looked for; a separator that ends where the piece starts
\* is passed over.
RECURSIVE splitFrom(_, _, _, _)
splitFrom(p, s, from, q) ==
  CHOOSE r \in
    {IF ~m.ok THEN <<SubSeq(s, from, Len(s))>>
     ELSE IF m.end = from THEN splitFrom(p, s, from, m.index + 1)
     ELSE <<SubSeq(s, from, m.index - 1)>> \o splitFrom(p, s, m.end, m.end) :
       m \in {IF q > Len(s) THEN NoMatch ELSE ExecFrom(p, s, q, FALSE)}} : TRUE

split(p, s) ==
  CHOOSE r \in
    {IF sv = <<>>
       THEN IF MatchAt(pv, 1, sv, 1, FALSE).ok THEN <<>> ELSE <<sv>>
       ELSE splitFrom(pv, sv, 1, 1) :
         pv \in {p}, sv \in {s}} : TRUE

\* array.filter(Boolean) on strings: the empty string is falsy.
filterBoolean(a) == SelectSeq(a, LAMBDA x : x # <<>>)

\* ------------------------------------------------------------------------
\* The extractors
\* ------------------------------------------------------------------------

\* `<${tagName}[^>]*>([\s\S]*?)<\\/${tagName}>` : the raw texts of the
\* template literal between its substitutions.
TagTemplate ==
  << <<"<">>,
     <<"[", "^", ">", "]", "*", ">", "(", "[", "\\", "s", "\\", "S", "]", "*", "?", ")",
       "<", "\\", "\\", "/">>,
     <<">">> >>

\* The template's texts as the literal holds them, cooked.
TagStrings == <<Cook(TagTemplate[1]), Cook(TagTemplate[2]), Cook(TagTemplate[3])>>

getTagContent(html, tagName) ==
  CHOOSE r \in
    {IF match.ok THEN trim(Group1(html, match)) ELSE <<>> :
       match \in {Exec(TagStrings[1] \o tagName \o TagStrings[2] \o tagName
                         \o TagStrings[3],
                       html, 1, TRUE)}} : TRUE

\* `<meta[^>]*name=["']${key}["'][^>]*content=["']([^"']*)["'][^>]*>`
MetaNameTemplate ==
  << <<"<", "m", "e", "t", "a", "[", "^", ">", "]", "*", "n", "a", "m", "e", "=",
       "[", "\"", "'", "]">>,
     <<"[", "\"", "'", "]", "[", "^", ">", "]", "*", "c", "o", "n", "t", "e", "n", "t",
       "=", "[", "\"", "'", "]", "(", "[", "^", "\"", "'", "]", "*", ")",
       "[", "\"", "'", "]", "[", "^", ">", "]", "*", ">">> >>

\* `<meta[^>]*property=["']${key}["'][^>]*content=["']([^"']*)["'][^>]*>`
MetaPropertyTemplate ==
  << <<"<", "m", "e", "t", "a", "[", "^", ">", "]", "*", "p", "r", "o", "p", "e", "r",
       "t", "y", "=", "[", "\"", "'", "]">>,
     MetaNameTemplate[2] >>

MetaNameStrings == <<Cook(MetaNameTemplate[1]), Cook(MetaNameTemplate[2])>>

MetaPropertyStrings == <<Cook(MetaPropertyTemplate[1]), Cook(MetaPropertyTemplate[2])>>

\* html.match(regex) for the pattern the template's strings give with the key.
metaMatch(strings, html, key) ==
  Exec(strings[1] \o key \o strings[2], html, 1, TRUE)

getMetaContent(html, key) ==
  CHOOSE r \in
    {IF byName.ok THEN Group1(html, byName)
     ELSE CHOOSE q \in
            {IF byProperty.ok THEN Group1(html, byProperty) ELSE <<>> :
               byProperty \in {metaMatch(MetaPropertyStrings, html, key)}} : TRUE :
       byName \in {metaMatch(MetaNameStrings, html, key)}} : TRUE

\* /<p[^>]*>(.*?)<\/?p>/gi
ParagraphRegex ==
  <<"<", "p", "[", "^", ">", "]", "*", ">", "(", ".", "*", "?", ")",
    "<", "\\", "/", "?", "p", ">">>

\* /<[^>]+>/g
AnyTagRegex == <<"<", "[", "^", ">", "]", "+", ">">>

\* /\s+/
SpacesRegex == <<"\\", "s", "+">>

\* The body of the while loop: the words of one match's captured content.
words(content) ==
  filterBoolean(split(SpacesRegex, trim(replaceAll(AnyTagRegex, content, <<" ">>))))

\* The while loop from lastIndex on.
RECURSIVE countFrom(_, _)
countFrom(html, lastIndex) ==
  CHOOSE r \in
    {IF ~match.ok THEN 0
     ELSE Len(words(Group1(html, match))) + countFrom(html, match.end) :
       match \in {ExecFrom(ParagraphRegex, html, lastIndex, TRUE)}} : TRUE

countWordsInPTags(html) == CHOOSE r \in {countFrom(h, 1) : h \in {html}} : TRUE

S_title == <<"t", "i", "t", "l", "e">>

S_ogtitle == <<"o", "g", ":", "t", "i", "t", "l", "e">>

S_description == <<"d", "e", "s", "c", "r", "i", "p", "t", "i", "o", "n">>

getDocumentTitle(html) ==
  CHOOSE r \in
    {IF titleTag # <<>> THEN titleTag
     ELSE CHOOSE q \in
            {IF ogTitle # <<>> THEN ogTitle ELSE getMetaContent(html, S_title) :
               ogTitle \in {getMetaContent(html, S_ogtitle)}} : TRUE :
       titleTag \in {getTagContent(html, S_title)}} : TRUE

\* ------------------------------------------------------------------------
\* Pages.  A page is a sequence of elements; each element keeps what it is
\* (its tag, its inner text, its attributes) next to the text it is written
\* as.  The extractors see only the text.
\* ------------------------------------------------------------------------

S_name == <<"n", "a", "m", "e">>

S_property == <<"p", "r", "o", "p", "e", "r", "t", "y">>

S_Description == <<"D", "e", "s", "c", "r", "i", "p", "t", "i", "o", "n">>

S_p == <<"p">>

S_meta == <<"m", "e", "t", "a">>

Element(tag, open, inner, close) ==
  [tag |-> tag, src |-> open \o inner \o close, inner |-> inner, closed |-> close # <<>>,
   attr |-> "", value |-> <<>>, content |-> <<>>, keyFirst |-> FALSE]

MetaElement(attr, value, content, keyFirst, src) ==
  [tag |-> S_meta, src |-> src, inner |-> <<>>, closed |-> TRUE,
   attr |-> attr, value |-> value, content |-> content, keyFirst |-> keyFirst]

AttrText(attr) == IF attr = "name" THEN S_name ELSE S_property

\* <meta name="value" content="content"> (or property=)
Meta(attr, value, content) ==
  MetaElement(attr, value, content, TRUE,
    <<"<", "m", "e", "t", "a", " ">> \o AttrText(attr) \o <<"=", "\"">> \o value
      \o <<"\"", " ", "c", "o", "n", "t", "e", "n", "t", "=", "\"">> \o content \o <<"\"", ">">>)

\* <META NAME="value" CONTENT="content">
MetaUpper(value, content) ==
  MetaElement("name", value, content, TRUE,
    <<"<", "M", "E", "T", "A", " ", "N", "A", "M", "E", "=", "\"">> \o value
      \o <<"\"", " ", "C", "O", "N", "T", "E", "N", "T", "=", "\"">> \o content \o <<"\"", ">">>)

\* <meta content="content" name="value">
MetaContentFirst(value, content) ==
  MetaElement("name", value, content, FALSE,
    <<"<", "m", "e", "t", "a", " ", "c", "o", "n", "t", "e", "n", "t", "=", "\"">> \o content
      \o <<"\"", " ", "n", "a", "m", "e", "=", "\"">> \o value \o <<"\"", ">">>)

Title(inner) ==
  Element(S_title, <<"<", "t", "i", "t", "l", "e", ">">>, inner,
          <<"<", "/", "t", "i", "t", "l", "e", ">">>)

\* <TITLE lang="en">inner</TITLE>
TitleUpper(inner) ==
  Element(S_title,
          <<"<", "T", "I", "T", "L", "E", " ", "l", "a", "n", "g", "=", "\"", "e", "n", "\"", ">">>,
          inner, <<"<", "/", "T", "I", "T", "L", "E", ">">>)

Paragraph(inner) == Element(S_p, <<"<", "p", ">">>, inner, <<"<", "/", "p", ">">>)

\* <p class="k">inner</p>
ParagraphWithClass(inner) ==
  Element(S_p, <<"<", "p", " ", "c", "l", "a", "s", "s", "=", "\"", "k", "\"", ">">>, inner,
          <<"<", "/", "p", ">">>)

\* <p>inner, with no closing tag
ParagraphOpen(inner) == Element(S_p, <<"<", "p", ">">>, inner, <<>>)

Text(inner) == Element(<<>>, <<>>, inner, <<>>)

Elements ==
  { Title(<<"a">>),
    Title(<<"s", "S">>),
    TitleUpper(<<" ", "a", "\n", "b", " ">>),
    Meta("name", S_description, <<"v">>),
    Meta("property", S_description, <<"w">>),
    Meta("name", S_Description, <<"u">>),
    MetaUpper(S_description, <<"x">>),
    Meta("property", S_ogtitle, <<"Y">>),
    Meta("name", S_title, <<"Z">>),
    Meta("name", S_description, <<"i", "t", "'", "s">>),
    MetaContentFirst(S_description, <<"r">>),
    Paragraph(<<"a", " ", "b">>),
    Paragraph(<<"a", " ", "<", "b", ">", "b", "<", "/", "b", ">", " ", "c">>),
    Paragraph(<<"a", "\n", "b">>),
    ParagraphWithClass(<<"a">>),
    ParagraphOpen(<<"a">>),
    Text(<<"x", " ", "y">>) }

\* The most elements a page has.
MaxElements == 2

RECURSIVE SeqsUpTo(_, _)
SeqsUpTo(S, n) ==
  IF n = 0 THEN {<<>>}
  ELSE LET shorter == SeqsUpTo(S, n - 1)
       IN shorter \cup {Append(d, e) : d \in {x \in shorter : Len(x) = n - 1}, e \in S}

Pages == SeqsUpTo(Elements, MaxElements)

\* The text of a page.
RECURSIVE Html(_)
Html(page) == IF page = <<>> THEN <<>> ELSE page[1].src \o Html(Tail(page))

TagNames == {S_title, S_p}

Keys == {S_description, S_ogtitle, S_title}

\* ------------------------------------------------------------------------
\* State
\* ------------------------------------------------------------------------

VARIABLES
  page,        \* the page whose text is analysed (the body the remote serves)
  fn,          \* the extractor that was applied to the page's text, or "none"
  arg,         \* its second argument (a tag name or a key), if any
  ret,         \* what it returned
  pc,          \* where the request handler / handleAnalysis is
  req,         \* the request being handled
  fetches,     \* how many times fetch was called for the request
  calls,       \* the arguments respond was invoked with, in order
  res,         \* the server response: headersSent, statusCode, ended, body
  response,    \* the fetch response: its status
  modulePc,    \* the index of the module's next top-level statement
  isMain,      \* require.main === module
  bindings,    \* the module-level bindings that are initialised
  thrown,      \* the exception the evaluation of the module ended with, or ""
  server,      \* whether http.createServer has returned the server
  listening,   \* whether server.listen was called
  exported,    \* whether module.exports holds the server
  refused      \* the requests clients sent while nothing was listening

extractorVars == <<page, fn, arg, ret>>

handlerVars == <<pc, req, fetches, calls, res, response>>

moduleVars == <<modulePc, isMain, bindings, thrown, server, listening, exported, refused>>

vars == <<page, fn, arg, ret, pc, req, fetches, calls, res, response,
          modulePc, isMain, bindings, thrown, server, listening, exported, refused>>

NoRequest ==
  [method |-> "", pathname |-> "", target |-> <<>>, hostOk |-> TRUE, raises |-> FALSE]

FreshResponse == [headersSent |-> FALSE, statusCode |-> 0, ended |-> FALSE, body |-> <<>>]

HandlerIdle ==
  /\ pc = "idle" /\ req = NoRequest /\ fetches = 0 /\ calls = <<>>
  /\ res = FreshResponse /\ response = 0

ModuleIdle ==
  /\ modulePc = 0 /\ isMain = FALSE /\ bindings = {} /\ thrown = ""
  /\ server = FALSE /\ listening = FALSE /\ exported = FALSE /\ refused = {}

ExtractorIdle == fn = "none" /\ arg = <<>> /\ ret = <<>>

\* ------------------------------------------------------------------------
\* The extractors applied to a page's text
\* ------------------------------------------------------------------------

Init ==
  /\ page \in Pages
  /\ ExtractorIdle
  /\ HandlerIdle
  /\ ModuleIdle

CallGetTagContent ==
  /\ fn = "none"
  /\ \E tagName \in TagNames :
       /\ fn' = "getTagContent"
       /\ arg' = tagName
       /\ \E html \in {Html(page)} : ret' = getTagContent(html, tagName)
  /\ UNCHANGED <<page, handlerVars, moduleVars>>

CallGetMetaContent ==
  /\ fn = "none"
  /\ \E key \in Keys :
       /\ fn' = "getMetaContent"
       /\ arg' = key
       /\ \E html \in {Html(page)} : ret' = getMetaContent(html, key)
  /\ UNCHANGED <<page, handlerVars, moduleVars>>

CallCountWordsInPTags ==
  /\ fn = "none"
  /\ fn' = "countWordsInPTags"
  /\ arg' = <<>>
  /\ \E html \in {Html(page)} : ret' = countWordsInPTags(html)
  /\ UNCHANGED <<page, handlerVars, moduleVars>>

CallGetDocumentTitle ==
  /\ fn = "none"
  /\ fn' = "getDocumentTitle"
  /\ arg' = <<>>
  /\ \E html \in {Html(page)} : ret' = getDocumentTitle(html)
  /\ UNCHANGED <<page, handlerVars, moduleVars>>

Next ==
  \/ CallGetTagContent
  \/ CallGetMetaContent
  \/ CallCountWordsInPTags
  \/ CallGetDocumentTitle

Spec == Init /\ [][Next]_vars

\* ------------------------------------------------------------------------
\* URLs: new URL(input) with no base.
\* ------------------------------------------------------------------------

\* The schemes whose URLs must name a host.
SpecialSchemes ==
  { <<"h", "t", "t", "p">>, <<"h", "t", "t", "p", "s">>, <<"f", "t", "p">>,
    <<"w", "s">>, <<"w", "s", "s">> }

\* The position of the colon that ends the scheme, or 0: the scheme is a
\* letter followed by letters.
SchemeEnd(input) ==
  IF \E i \in 1..Len(input) : input[i] = ":"
    THEN CHOOSE r \in
           {IF i > 1 /\ \A j \in 1..(i - 1) : IsAlpha(input[j]) THEN i ELSE 0 :
              i \in {Min({k \in 1..Len(input) : input[k] = ":"})}} : TRUE
    ELSE 0

\* What follows the scheme's colon and the slashes after it.
AfterSlashes(input, colon) ==
  SubSeq(input, Min({k \in (colon + 1)..(Len(input) + 1) :
                       k = Len(input) + 1 \/ input[k] \notin {"/", "\\"}}), Len(input))

\* new URL(input): ok is FALSE where the constructor throws TypeError;
\* protocol is the scheme in lower case with its colon.
ParseURL(input) ==
  CHOOSE r \in
    {IF colon = 0 THEN [ok |-> FALSE, protocol |-> <<>>]
     ELSE CHOOSE q \in
            {IF scheme \in SpecialSchemes /\ AfterSlashes(input, colon) = <<>>
               THEN [ok |-> FALSE, protocol |-> <<>>]
               ELSE [ok |-> TRUE, protocol |-> Append(scheme, ":")] :
               scheme \in {[j \in 1..(colon - 1) |-> Lower(input[j])]}} : TRUE :
       colon \in {SchemeEnd(input)}} : TRUE

\* ['http:', 'https:']
SupportedProtocols == { <<"h", "t", "t", "p", ":">>, <<"h", "t", "t", "p", "s", ":">> }

\* ------------------------------------------------------------------------
\* The request handler and handleAnalysis
\* ------------------------------------------------------------------------

Url_http == <<"h", "t", "t", "p", ":", "/", "/", "a">>

Url_HTTPS == <<"H", "T", "T", "P", "S", ":", "/", "/", "a">>

Url_ftp == <<"f", "t", "p", ":", "/", "/", "a">>

Url_mailto == <<"m", "a", "i", "l", "t", "o", ":", "a">>

Url_relative == <<"a">>

Url_nohost == <<"h", "t", "t", "p", ":", "/", "/">>

\* parsed.searchParams.get('url'): <<>> is null, <<s>> is the string s.
Targets ==
  { <<>>, << <<>> >>, <<Url_http>>, <<Url_HTTPS>>, <<Url_ftp>>, <<Url_mailto>>,
    <<Url_relative>>, <<Url_nohost>> }

\* A request: its method, the path of its URL, the url parameter of its
\* query, whether its Host header gives a base URL that parses, and whether
\* writing the response raises.
Requests ==
  [method : {"GET", "POST"}, pathname : {"/analyze", "/", "/app.js"},
   target : Targets, hostOk : BOOLEAN, raises : BOOLEAN]

\* method === 'GET' && parsed.pathname === '/analyze'
IsAnalyze(r) == r.hostOk /\ r.method = "GET" /\ r.pathname = "/analyze"

\* !target
NoTarget(r) == r.target = <<>> \/ r.target = << <<>> >>

\* The messages a rejected fetch or body read carries; "" is an error with
\* no message.
FailureMessages == {"fetch failed", ""}

Statuses == {200, 404}

\* The most elements a page served to handleAnalysis has.
MaxServed == 1

Served == SeqsUpTo(Elements, MaxServed)

\* The callback the handler passes to handleAnalysis, applied to data:
\* writeHead throws when the headers were sent already; otherwise the head is
\* written with status 200, and the body is written unless the write raises.
respond(r, data, raises) ==
  IF r.headersSent
    THEN [res |-> r, threw |-> TRUE,
          message |-> "Cannot write headers after they are sent to the client"]
    ELSE [res |-> [headersSent |-> TRUE, statusCode |-> 200, ended |-> ~raises,
                   body |-> IF raises THEN <<>> ELSE <<data>>],
          threw |-> raises, message |-> "write failed"]

\* The catch block: respond with the exception's message or the general one.
\* An exception of respond here leaves the function: its promise is rejected.
Catch(cs, r, message, raises) ==
  LET data == [error |-> IF message # "" THEN message
                         ELSE "Failed to fetch or process the URL."]
      out == respond(r, data, raises)
  IN [calls |-> Append(cs, data), res |-> out.res,
      pc |-> IF out.threw THEN "rejected" ELSE "done"]

\* respond(data) in the try block, the catch block behind it.
TryRespond(cs, r, data, raises) ==
  LET out == respond(r, data, raises)
  IN IF out.threw THEN Catch(Append(cs, data), out.res, out.message, raises)
     ELSE [calls |-> Append(cs, data), res |-> out.res, pc |-> "done"]

InvalidProtocol == [error |-> "Invalid protocol; only http and https are supported."]

\* The analysis object of lines 108-118.
Analysis(html, status) ==
  CHOOSE q \in
    {[statusCode |-> status, metaTitle |-> title, metaTitleLength |-> Len(title),
      metaDescription |-> metaDescription,
      metaDescriptionLength |-> Len(metaDescription),
      wordCountInPTags |-> countWordsInPTags(html)] :
       title \in {getTagContent(html, S_title)},
       metaDescription \in {getMetaContent(html, S_description)}} : TRUE

InitAnalysis ==
  /\ page = <<>>
  /\ ExtractorIdle
  /\ HandlerIdle
  /\ ModuleIdle

\* new URL(reqUrl, base) throws: the handler's promise is rejected.
RequestBadHost ==
  /\ pc = "idle"
  /\ \E r \in Requests :
       /\ ~r.hostOk
       /\ req' = r
  /\ pc' = "rejected"
  /\ UNCHANGED <<fetches, calls, res, response, extractorVars, moduleVars>>

\* The missing parameter reported the way respond reports: with status 200.
AnalyzeMissingUrlOk ==
  /\ pc = "idle"
  /\ \E r \in Requests :
       /\ IsAnalyze(r) /\ NoTarget(r)
       /\ req' = r
  /\ res' = [headersSent |-> TRUE, statusCode |-> 200, ended |-> TRUE,
             body |-> << [error |-> "Missing url parameter."] >>]
  /\ pc' = "done"
  /\ UNCHANGED <<fetches, calls, response, extractorVars, moduleVars>>

\* /analyze with no url parameter, or an empty one.
AnalyzeMissingUrl ==
  /\ pc = "idle"
  /\ \E r \in Requests :
       /\ IsAnalyze(r) /\ NoTarget(r)
       /\ req' = r
  /\ res' = [headersSent |-> TRUE, statusCode |-> 400, ended |-> TRUE,
             body |-> << [error |-> "Missing url parameter."] >>]
  /\ pc' = "done"
  /\ UNCHANGED <<fetches, calls, response, extractorVars, moduleVars>>

\* handleAnalysis: new URL(targetUrl) throws.
AnalyzeInvalidUrl ==
  /\ pc = "idle"
  /\ \E r \in Requests :
       /\ IsAnalyze(r) /\ ~NoTarget(r) /\ ~ParseURL(r.target[1]).ok
       /\ req' = r
       /\ \E out \in {Catch(calls, res, "Invalid URL", r.raises)} :
            /\ calls' = out.calls
            /\ res' = out.res
            /\ pc' = out.pc
  /\ UNCHANGED <<fetches, response, extractorVars, moduleVars>>

\* handleAnalysis with the return after the protocol's error left out: the
\* fetch follows the respond.
AnalyzeInvalidProtocolNoReturn ==
  /\ pc = "idle"
  /\ \E r \in Requests :
       /\ IsAnalyze(r) /\ ~NoTarget(r)
       /\ \E parsedUrl \in {ParseURL(r.target[1])} :
            parsedUrl.ok /\ parsedUrl.protocol \notin SupportedProtocols
       /\ req' = r
       /\ \E out \in {TryRespond(calls, res, InvalidProtocol, r.raises)} :
            /\ calls' = out.calls
            /\ res' = out.res
            /\ pc' = IF out.pc = "done" /\ Len(out.calls) = 1 THEN "fetching" ELSE out.pc
            /\ fetches' = IF out.pc = "done" /\ Len(out.calls) = 1 THEN fetches + 1
                          ELSE fetches
  /\ UNCHANGED <<response, extractorVars, moduleVars>>

\* handleAnalysis: the protocol is not supported; respond and return.
AnalyzeInvalidProtocol ==
  /\ pc = "idle"
  /\ \E r \in Requests :
       /\ IsAnalyze(r) /\ ~NoTarget(r)
       /\ \E parsedUrl \in {ParseURL(r.target[1])} :
            parsedUrl.ok /\ parsedUrl.protocol \notin SupportedProtocols
       /\ req' = r
       /\ \E out \in {TryRespond(calls, res, InvalidProtocol, r.raises)} :
            /\ calls' = out.calls
            /\ res' = out.res
            /\ pc' = out.pc
  /\ UNCHANGED <<fetches, response, extractorVars, moduleVars>>

\* handleAnalysis: the protocol is supported; fetch(targetUrl) is called.
AnalyzeFetch ==
  /\ pc = "idle"
  /\ \E r \in Requests :
       /\ IsAnalyze(r) /\ ~NoTarget(r)
       /\ \E parsedUrl \in {ParseURL(r.target[1])} :
            parsedUrl.ok /\ parsedUrl.protocol \in SupportedProtocols
       /\ req' = r
  /\ fetches' = fetches + 1
  /\ pc' = "fetching"
  /\ UNCHANGED <<calls, res, response, extractorVars, moduleVars>>

\* await fetch(targetUrl) gives a response; response.text() is called.
FetchResolves ==
  /\ pc = "fetching"
  /\ \E status \in Statuses : response' = status
  /\ pc' = "reading"
  /\ UNCHANGED <<req, fetches, calls, res, extractorVars, moduleVars>>

\* await fetch(targetUrl) throws.
FetchRejects ==
  /\ pc = "fetching"
  /\ \E message \in FailureMessages :
       \E c \in {Catch(calls, res, message, req.raises)} :
         /\ calls' = c.calls
         /\ res' = c.res
         /\ pc' = c.pc
  /\ UNCHANGED <<req, fetches, response, extractorVars, moduleVars>>

\* await response.text() gives the page's text: extract, build, respond.
TextResolves ==
  /\ pc = "reading"
  /\ \E served \in Served :
       /\ page' = served
       /\ \E html \in {Html(served)} :
            \E out \in {TryRespond(calls, res, Analysis(html, response), req.raises)} :
              /\ calls' = out.calls
              /\ res' = out.res
              /\ pc' = out.pc
  /\ UNCHANGED <<req, fetches, response, fn, arg, ret, moduleVars>>

\* await response.text() throws.
TextRejects ==
  /\ pc = "reading"
  /\ \E message \in FailureMessages :
       \E c \in {Catch(calls, res, message, req.raises)} :
         /\ calls' = c.calls
         /\ res' = c.res
         /\ pc' = c.pc
  /\ UNCHANGED <<req, fetches, response, extractorVars, moduleVars>>

\* Any other request is for a static file: fs.readFile is called.
StaticRequest ==
  /\ pc = "idle"
  /\ \E r \in Requests :
       /\ r.hostOk /\ ~IsAnalyze(r)
       /\ req' = r
  /\ pc' = "readFile"
  /\ UNCHANGED <<fetches, calls, res, response, extractorVars, moduleVars>>

\* path.join(publicDir, ...) for the request's path.
FilePath(pathname) ==
  CASE pathname = "/" -> "public/index.html"
    [] pathname = "/app.js" -> "public/app.js"
    [] pathname = "/analyze" -> "public/analyze"

ReadFileFails ==
  /\ pc = "readFile"
  /\ res' = [headersSent |-> TRUE, statusCode |-> 404, ended |-> TRUE,
             body |-> << [text |-> "Not found"] >>]
  /\ pc' = "done"
  /\ UNCHANGED <<req, fetches, calls, response, extractorVars, moduleVars>>

ReadFileSucceeds ==
  /\ pc = "readFile"
  /\ res' = [headersSent |-> TRUE, statusCode |-> 200, ended |-> TRUE,
             body |-> << [file |-> FilePath(req.pathname)] >>]
  /\ pc' = "done"
  /\ UNCHANGED <<req, fetches, calls, response, extractorVars, moduleVars>>

NextAnalysis ==
  \/ RequestBadHost
  \/ AnalyzeMissingUrl
  \/ AnalyzeInvalidUrl
  \/ AnalyzeInvalidProtocol
  \/ AnalyzeFetch
  \/ FetchResolves
  \/ FetchRejects
  \/ TextResolves
  \/ TextRejects
  \/ StaticRequest
  \/ ReadFileFails
  \/ ReadFileSucceeds

SpecAnalysis == InitAnalysis /\ [][NextAnalysis]_vars

\* ------------------------------------------------------------------------
\* The evaluation of the module
\* ------------------------------------------------------------------------

\* What the module wrapper and the global object give.
Globals ==
  {"require", "module", "exports", "__dirname", "__filename", "process", "console",
   "fetch"}

\* The function declarations: initialised before the first statement runs.
Hoisted ==
  {"getTagContent", "getMetaContent", "countWordsInPTags", "getDocumentTitle",
   "handleAnalysis"}

\* The top-level statements in order: the identifiers each one evaluates, the
\* binding it initialises, and what it does besides.
Statements ==
  << [line |-> 1, reads |-> {"require"}, declares |-> {"http"}, does |-> ""],
     [line |-> 2, reads |-> {"require"}, declares |-> {"URL"}, does |-> ""],
     [line |-> 14, reads |-> {"require"}, declares |-> {"fs"}, does |-> ""],
     [line |-> 15, reads |-> {"require"}, declares |-> {"path"}, does |-> ""],
     [line |-> 17, reads |-> {"path", "__dirname"}, declares |-> {"publicDir"}, does |-> ""],
     [line |-> 82, reads |-> {"getDocumentTitle", "html"}, declares |-> {"title"}, does |-> ""],
     [line |-> 83, reads |-> {"getMetaContent", "html"}, declares |-> {"metaDescription"},
      does |-> ""],
     [line |-> 127, reads |-> {"http"}, declares |-> {"server"}, does |-> "createServer"],
     [line |-> 172, reads |-> {"require", "module"}, declares |-> {}, does |-> "listen"],
     [line |-> 179, reads |-> {"module", "server"}, declares |-> {}, does |-> "exports"] >>

\* The identifiers the statement evaluates: the body of the if statement
\* is evaluated when the file is the main module.
Reads(st, main) ==
  IF st.does = "listen" /\ main THEN st.reads \cup {"process", "server"} ELSE st.reads

\* The requests a client may send to the port.
ClientRequests == {"GET /", "GET /app.js", "GET /analyze", "GET /analyze?url=http://a"}

InitModule ==
  /\ page = <<>>
  /\ ExtractorIdle
  /\ HandlerIdle
  /\ modulePc = 1
  /\ isMain \in BOOLEAN
  /\ bindings = Hoisted
  /\ thrown = ""
  /\ server = FALSE /\ listening = FALSE /\ exported = FALSE
  /\ refused = {}

\* The next statement: an identifier with no initialised binding throws a
\* ReferenceError that ends the evaluation; otherwise the statement acts.
EvaluateStatement ==
  /\ thrown = ""
  /\ modulePc <= Len(Statements)
  /\ \E st \in {Statements[modulePc]} :
       IF Reads(st, isMain) \subseteq (bindings \cup Globals)
         THEN /\ bindings' = bindings \cup st.declares
              /\ modulePc' = modulePc + 1
              /\ server' = (server \/ st.does = "createServer")
              /\ listening' = (listening \/ (st.does = "listen" /\ isMain))
              /\ exported' = (exported \/ st.does = "exports")
              /\ UNCHANGED thrown
         ELSE /\ thrown' = "ReferenceError"
              /\ UNCHANGED <<bindings, modulePc, server, listening, exported>>
  /\ UNCHANGED <<isMain, refused, extractorVars, handlerVars>>

\* A client sends a request while nothing listens: it is refused.
ClientRefused ==
  /\ ~listening
  /\ \E r \in ClientRequests : refused' = refused \cup {r}
  /\ UNCHANGED <<modulePc, isMain, bindings, thrown, server, listening, exported,
                 extractorVars, handlerVars>>

NextModule ==
  \/ EvaluateStatement
  \/ ClientRefused

SpecModule == InitModule /\ [][NextModule]_vars

\* ------------------------------------------------------------------------
\* What a page holds, read from its elements and not from its text
\* ------------------------------------------------------------------------

\* The elements of the page with the tag name.
TagIndexes(pg, tagName) == {i \in 1..Len(pg) : pg[i].tag = tagName}

\* The trimmed inner text of the first element with the tag name, or ''.
FirstTagText(pg, tagName) ==
  IF TagIndexes(pg, tagName) = {} THEN <<>>
  ELSE trim(pg[Min(TagIndexes(pg, tagName))].inner)

LowerCase(text) == [i \in 1..Len(text) |-> Lower(text[i])]

\* The meta tags, key before content, whose attribute is the key exactly.
KeyedExactly(pg, attr, key) ==
  {i \in 1..Len(pg) : /\ pg[i].tag = S_meta /\ pg[i].attr = attr /\ pg[i].keyFirst
                      /\ pg[i].value = key}

\* The meta tags, key before content, whose attribute is the key up to the
\* case of its letters.
KeyedIgnoringCase(pg, attr, key) ==
  {i \in 1..Len(pg) : /\ pg[i].tag = S_meta /\ pg[i].attr = attr /\ pg[i].keyFirst
                      /\ LowerCase(pg[i].value) = LowerCase(key)}

\* The content value up to its first quote character of either kind.
UpToQuote(content) ==
  SubSeq(content, 1, Min({k \in 1..(Len(content) + 1) :
                            k = Len(content) + 1 \/ content[k] \in {"\"", "'"}}) - 1)

\* The content of the first name-keyed tag, else of the first property-keyed
\* tag, else ''.
MetaValue(pg, byName, byProperty) ==
  IF byName # {} THEN pg[Min(byName)].content
  ELSE IF byProperty # {} THEN pg[Min(byProperty)].content
  ELSE <<>>

\* No meta tag's name or property differs from the key in letter case only.
NoCaseVariant(pg, key) ==
  \A i \in 1..Len(pg) :
    (pg[i].tag = S_meta /\ LowerCase(pg[i].value) = LowerCase(key)) => pg[i].value = key

\* Every element with the tag name has its closing tag.
AllClosed(pg, tagName) == \A i \in TagIndexes(pg, tagName) : pg[i].closed

\* A paragraph with no closing tag is directly followed by a paragraph.
OpenEndedByParagraph(pg) ==
  \A i \in TagIndexes(pg, S_p) :
    pg[i].closed \/ (i < Len(pg) /\ pg[i + 1].tag = S_p)

\* The words of all the paragraphs of the page.
RECURSIVE ParagraphWords(_)
ParagraphWords(pg) ==
  IF pg = <<>> THEN 0
  ELSE (IF pg[1].tag = S_p THEN Len(words(pg[1].inner)) ELSE 0) + ParagraphWords(Tail(pg))

FirstNonEmpty(a, b, c) == IF a # <<>> THEN a ELSE IF b # <<>> THEN b ELSE c

\* handleAnalysis was called for the request.
Analysed == IsAnalyze(req) /\ ~NoTarget(req)

\* The request's url parameter parses and its scheme is not supported.
InvalidScheme ==
  /\ Analysed
  /\ ParseURL(req.target[1]).ok
  /\ ParseURL(req.target[1]).protocol \notin SupportedProtocols

IsError(data) == DOMAIN data = {"error"}

IsAnalysis(data) ==
  DOMAIN data = {"statusCode", "metaTitle", "metaTitleLength", "metaDescription",
                 "metaDescriptionLength", "wordCountInPTags"}

Finished == pc \in {"done", "rejected"}

\* ------------------------------------------------------------------------
\* The claims
\* ------------------------------------------------------------------------

\* C1: on a page whose elements of the tag all have their closing tag,
\* getTagContent returns the trimmed inner text of the first element with
\* the tag name, and '' when there is none.
C1_FirstTagContent ==
  (fn = "getTagContent" /\ AllClosed(page, arg)) => ret = FirstTagText(page, arg)

\* C2: the analysis handleAnalysis responds with has metaTitle equal to
\* getDocumentTitle of the fetched text, metaDescription equal to
\* getMetaContent for 'description', wordCountInPTags equal to
\* countWordsInPTags and statusCode equal to the fetched status.
C2_AnalysisUsesTitleResolver ==
  (Finished /\ calls # <<>> /\ IsAnalysis(calls[1])) =>
    /\ calls[1].statusCode = response
    /\ calls[1].metaTitle = getDocumentTitle(Html(page))
    /\ calls[1].metaTitleLength = Len(getDocumentTitle(Html(page)))
    /\ calls[1].metaDescription = getMetaContent(Html(page), S_description)
    /\ calls[1].wordCountInPTags = countWordsInPTags(Html(page))

\* C3: countWordsInPTags returns the sum over every paragraph of the page of
\* the number of words of its content, a paragraph ended by a following <p>
\* included.
C3_EveryParagraphCounted ==
  (fn = "countWordsInPTags" /\ OpenEndedByParagraph(page)) => ret = ParagraphWords(page)

\* C4: where no tag's key differs from the key in letter case only,
\* getMetaContent returns the content value of the first meta tag whose name
\* is the key, else of the first whose property is the key, else ''.
C4_ContentOfFirstNamed ==
  (fn = "getMetaContent" /\ NoCaseVariant(page, arg)) =>
    ret = MetaValue(page, KeyedExactly(page, "name", arg),
                    KeyedExactly(page, "property", arg))

\* C5: getDocumentTitle returns the first non-empty of the title tag's inner
\* text, the meta value for 'og:title' and the meta value for 'title'.
C5_FirstNonEmptySource ==
  fn = "getDocumentTitle" =>
    ret = FirstNonEmpty(FirstTagText(page, S_title),
                        getMetaContent(Html(page), S_ogtitle),
                        getMetaContent(Html(page), S_title))

\* C6: when the target URL parses and its scheme is neither http nor https,
\* no fetch is made for the request, the first thing handleAnalysis responds
\* with is the invalid-protocol error, and that error is what is sent.
C6_InvalidSchemeNoFetch ==
  InvalidScheme =>
    /\ fetches = 0
    /\ calls # <<>> /\ calls[1] = InvalidProtocol
    /\ ~req.raises => (calls = <<InvalidProtocol>> /\ res.body = <<InvalidProtocol>>)

C6_Witness ==
  /\ InvalidScheme /\ req.target = <<Url_ftp>> /\ ~req.raises
  /\ pc = "done" /\ calls = <<InvalidProtocol>> /\ fetches = 0

\* C7: when a call of handleAnalysis has ended, respond was invoked exactly
\* once, with an analysis or with an error object.
C7_RespondExactlyOnce ==
  (Finished /\ Analysed) =>
    /\ Len(calls) = 1
    /\ IsAnalysis(calls[1]) \/ IsError(calls[1])

\* C8 (as claimed): every JSON error object is sent with status 200.
C8_ErrorsSentWith200 ==
  (res.ended /\ res.body # <<>> /\ IsError(res.body[1])) => res.statusCode = 200

\* C8 (amended): the error objects handleAnalysis responds with are sent with
\* status 200, and the missing url parameter error is sent with status 400.
C8_ErrorStatus ==
  (res.ended /\ res.body # <<>> /\ IsError(res.body[1])) =>
    res.statusCode = IF Analysed THEN 200 ELSE 400

C8_Witness ==
  /\ pc = "done" /\ IsAnalyze(req) /\ NoTarget(req)
  /\ res.ended /\ res.body = << [error |-> "Missing url parameter."] >>
  /\ res.statusCode = 400

\* C9 (as claimed): getMetaContent compares the key exactly: it returns the
\* content, up to its first quote character, of the first tag whose name is
\* the key letter for letter, else of the first such property tag, else ''.
C9_KeyCaseSensitive ==
  fn = "getMetaContent" =>
    ret = UpToQuote(MetaValue(page, KeyedExactly(page, "name", arg),
                              KeyedExactly(page, "property", arg)))

\* C9 (amended): getMetaContent compares the key, like the tag and attribute
\* syntax, without regard to letter case: it returns the content, up to its
\* first quote character, of the first tag whose name is the key up to letter
\* case, else of the first such property tag, else ''.
C9_KeyIgnoresCase ==
  fn = "getMetaContent" =>
    ret = UpToQuote(MetaValue(page, KeyedIgnoringCase(page, "name", arg),
                              KeyedIgnoringCase(page, "property", arg)))

C9_Witness ==
  /\ fn = "getMetaContent" /\ arg = S_description
  /\ page = << Meta("name", S_Description, <<"u">>) >>
  /\ ret = <<"u">>

\* C10: the evaluation of the module ends with no exception, the server
\* created and exported, and listening when the file is the main module.
C10_ModuleInitCompletes ==
  (thrown # "" \/ modulePc > Len(Statements)) =>
    /\ thrown = ""
    /\ server /\ exported
    /\ isMain => listening

====
